---- MODULE Spec2Model ----
(***************************************************************************)
(* golox: the scanner of cmd/myinterpreter (main.go) and its driver.       *)
(*                                                                         *)
(* Source text, lexemes and everything written to stdout and stderr are    *)
(* sequences of byte values (Go strings); Go's 0-based index i of a string *)
(* s is the element s[i + 1] here.  A token is the record                  *)
(* [type, lexeme, literal, line] of main.go's Token struct.                *)
(***************************************************************************)
EXTENDS Integers, Sequences, FiniteSets, TLC

\* ------------------------------------------------------------------------
\* TokenType: the iota enumeration of main.go:14-63.  ELSE, FALSE, IF and TRUE
\* are reserved words here and carry the prefix KW_; STRING is TOK_STRING.
LEFT_PAREN == 0
RIGHT_PAREN == 1
LEFT_BRACE == 2
RIGHT_BRACE == 3
COMMA == 4
DOT == 5
MINUS == 6
PLUS == 7
SEMICOLON == 8
SLASH == 9
STAR == 10
BANG == 11
BANG_EQUAL == 12
EQUAL == 13
EQUAL_EQUAL == 14
GREATER == 15
GREATER_EQUAL == 16
LESS == 17
LESS_EQUAL == 18
IDENTIFIER == 19
TOK_STRING == 20
NUMBER == 21
AND == 22
CLASS == 23
KW_ELSE == 24
KW_FALSE == 25
FUN == 26
FOR == 27
KW_IF == 28
NIL == 29
OR == 30
PRINT == 31
RETURN == 32
SUPER == 33
THIS == 34
KW_TRUE == 35
VAR == 36
WHILE == 37
EOF == 38

\* A variant of the keyword table with the kinds of "for" and "fun" exchanged
\* (the table lists them in the other order than the enumeration does).
keywordsForFunSwapped ==
      (<<97, 110, 100>> :> AND)                             \* "and"
   @@ (<<99, 108, 97, 115, 115>> :> CLASS)                  \* "class"
   @@ (<<101, 108, 115, 101>> :> KW_ELSE)                      \* "else"
   @@ (<<102, 97, 108, 115, 101>> :> KW_FALSE)                 \* "false"
   @@ (<<102, 111, 114>> :> FUN)                            \* "for"
   @@ (<<102, 117, 110>> :> FOR)                            \* "fun"
   @@ (<<105, 102>> :> KW_IF)                                  \* "if"
   @@ (<<110, 105, 108>> :> NIL)                            \* "nil"
   @@ (<<111, 114>> :> OR)                                  \* "or"
   @@ (<<112, 114, 105, 110, 116>> :> PRINT)                \* "print"
   @@ (<<114, 101, 116, 117, 114, 110>> :> RETURN)          \* "return"
   @@ (<<115, 117, 112, 101, 114>> :> SUPER)                \* "super"
   @@ (<<116, 104, 105, 115>> :> THIS)                      \* "this"
   @@ (<<116, 114, 117, 101>> :> KW_TRUE)                      \* "true"
   @@ (<<118, 97, 114>> :> VAR)                             \* "var"
   @@ (<<119, 104, 105, 108, 101>> :> WHILE)                \* "while"

\* var keywords = map[string]TokenType{...}
keywords ==
      (<<97, 110, 100>> :> AND)                             \* "and"
   @@ (<<99, 108, 97, 115, 115>> :> CLASS)                  \* "class"
   @@ (<<101, 108, 115, 101>> :> KW_ELSE)                      \* "else"
   @@ (<<102, 97, 108, 115, 101>> :> KW_FALSE)                 \* "false"
   @@ (<<102, 111, 114>> :> FOR)                            \* "for"
   @@ (<<102, 117, 110>> :> FUN)                            \* "fun"
   @@ (<<105, 102>> :> KW_IF)                                  \* "if"
   @@ (<<110, 105, 108>> :> NIL)                            \* "nil"
   @@ (<<111, 114>> :> OR)                                  \* "or"
   @@ (<<112, 114, 105, 110, 116>> :> PRINT)                \* "print"
   @@ (<<114, 101, 116, 117, 114, 110>> :> RETURN)          \* "return"
   @@ (<<115, 117, 112, 101, 114>> :> SUPER)                \* "super"
   @@ (<<116, 104, 105, 115>> :> THIS)                      \* "this"
   @@ (<<116, 114, 117, 101>> :> KW_TRUE)                      \* "true"
   @@ (<<118, 97, 114>> :> VAR)                             \* "var"
   @@ (<<119, 104, 105, 108, 101>> :> WHILE)                \* "while"

\* ------------------------------------------------------------------------
\* Go strings: indexing, slicing, decimal rendering.

\* s[i] is in range
InRange(s, i) == i >= 0 /\ i < Len(s)

\* s[i], for i in range
ByteAt(s, i) == s[i + 1]

\* s[lo:hi] is in range
SliceInRange(s, lo, hi) == 0 <= lo /\ lo <= hi /\ hi <= Len(s)

\* s[lo:hi], for bounds in range
Slice(s, lo, hi) == [k \in 1..(hi - lo) |-> s[lo + k]]

\* %d of a non-negative int
RECURSIVE Itoa(_)
Itoa(n) == IF n < 10 THEN <<48 + n>> ELSE Itoa(n \div 10) \o <<48 + (n % 10)>>

\* ------------------------------------------------------------------------
\* Literals (main.go:84-108).  A float64 is held as <<m, s>>, the decimal
\* m / 10^s with no trailing zero in its fraction: the values the scanner can
\* build from a lexeme of at most 15 digits, for which float64's shortest
\* decimal form is the one parsed.

LoxEmptyLiteral == [kind |-> "LoxEmptyLiteral", value |-> <<>>]

LoxString(value) == [kind |-> "LoxString", value |-> value]

LoxNumber(value) == [kind |-> "LoxNumber", value |-> value]

RECURSIVE DigitsValue(_)
DigitsValue(ds) ==
    IF ds = <<>> THEN 0
    ELSE 10 * DigitsValue(SubSeq(ds, 1, Len(ds) - 1)) + (ds[Len(ds)] - 48)

RECURSIVE NormalizeDecimal(_, _)
NormalizeDecimal(m, s) ==
    IF s > 0 /\ m % 10 = 0 THEN NormalizeDecimal(m \div 10, s - 1) ELSE <<m, s>>

\* strconv.ParseFloat(text, 64) on digits ['.' digits]
ParseFloat(text) ==
    LET dots == {i \in 1..Len(text) : text[i] = 46}
        dot  == IF dots = {} THEN Len(text) + 1 ELSE CHOOSE i \in dots : \A j \in dots : i <= j
        ip   == SubSeq(text, 1, dot - 1)
        fp   == SubSeq(text, dot + 1, Len(text))
    IN  NormalizeDecimal(DigitsValue(ip \o fp), Len(fp))

\* strconv's shortest digits of a value: the digit string nd and the position dp
\* of the decimal point after its first dp digits.
RECURSIVE StripZeros(_, _)
StripZeros(m, z) == IF m > 0 /\ m % 10 = 0 THEN StripZeros(m \div 10, z + 1) ELSE <<m, z>>

ShortestDigits(v) ==
    LET mz == StripZeros(v[1], 0)
        d  == IF mz[1] = 0 THEN <<>> ELSE Itoa(mz[1])
    IN  [d |-> d, nd |-> Len(d), dp |-> IF mz[1] = 0 THEN 0 ELSE Len(d) + mz[2] - v[2]]

DigitAt(digs, j) == IF j >= 0 /\ j < digs.nd THEN digs.d[j + 1] ELSE 48

\* strconv %f with the digits after the point that the value has
FmtF(digs) ==
    LET prec == IF digs.nd - digs.dp > 0 THEN digs.nd - digs.dp ELSE 0
        ip   == IF digs.dp > 0 THEN [i \in 1..digs.dp |-> DigitAt(digs, i - 1)] ELSE <<48>>
        fp   == IF prec > 0 THEN <<46>> \o [i \in 1..prec |-> DigitAt(digs, digs.dp + i - 1)]
                ELSE <<>>
    IN  ip \o fp

\* strconv %e with the digits the value has: d.ddde+XX
FmtE(digs) ==
    LET exp  == IF digs.nd = 0 THEN 0 ELSE digs.dp - 1
        mag  == IF exp < 0 THEN 0 - exp ELSE exp
        rest == IF digs.nd > 1 THEN <<46>> \o [i \in 1..(digs.nd - 1) |-> DigitAt(digs, i)]
                ELSE <<>>
    IN  <<DigitAt(digs, 0)>> \o rest \o <<101, IF exp < 0 THEN 45 ELSE 43>>
        \o (IF mag < 10 THEN <<48>> ELSE <<>>) \o Itoa(mag)

\* fmt %v of a float64: %g with the shortest digits, which is %e when the
\* exponent is below -4 or at least 6.
FormatFloatV(v) ==
    LET digs == ShortestDigits(v)
        exp  == digs.dp - 1
    IN  IF exp < -4 \/ exp >= 6 THEN FmtE(digs) ELSE FmtF(digs)

HexDigit(n) == IF n < 10 THEN 48 + n ELSE 97 + (n - 10)

\* strconv.Quote's rendering of one byte of an ASCII string
QuoteByte(c) ==
    CASE c = 34 \/ c = 92 -> <<92, c>>
      [] c = 7  -> <<92, 97>>
      [] c = 8  -> <<92, 98>>
      [] c = 12 -> <<92, 102>>
      [] c = 10 -> <<92, 110>>
      [] c = 13 -> <<92, 114>>
      [] c = 9  -> <<92, 116>>
      [] c = 11 -> <<92, 118>>
      [] OTHER  -> IF c >= 32 /\ c < 127 THEN <<c>>
                   ELSE <<92, 120, HexDigit(c \div 16), HexDigit(c % 16)>>

RECURSIVE QuoteBody(_)
QuoteBody(s) == IF s = <<>> THEN <<>> ELSE QuoteByte(Head(s)) \o QuoteBody(Tail(s))

\* fmt %q of a string
Quote(s) == <<34>> \o QuoteBody(s) \o <<34>>

\* literal.RawPrint()
RawPrint(literal) ==
    CASE literal.kind = "LoxString" -> Quote(literal.value)
      [] literal.kind = "LoxNumber" -> FormatFloatV(literal.value)
      [] OTHER                      -> <<110, 117, 108, 108>>          \* "null"

\* fmt %s of a TokenType, an int type with no String method: fmt's
\* bad-verb form %!s(main.TokenType=N)
FormatTokenTypeS(t) ==
    <<37, 33, 115, 40, 109, 97, 105, 110, 46, 84, 111, 107, 101, 110, 84, 121, 112, 101, 61>>
    \o Itoa(t) \o <<41>>

\* (tok *Token) String(): Sprintf("%s %s %s", tok._type, tok.lexeme, tok.literal.RawPrint())
TokenString(tok) ==
    FormatTokenTypeS(tok.type) \o <<32>> \o tok.lexeme \o <<32>> \o RawPrint(tok.literal)

\* ------------------------------------------------------------------------
\* The scanner (main.go:121-349).  Its operations act on w, the record
\* [scan, hadError, stderr, panic]: the Scanner struct, the two pieces of
\* process state a scan step can change (the hadError flag and what has been
\* written to stderr) and whether the goroutine has panicked.  Once w.panic is
\* set, no later statement of the step runs.

\* NewScanner(source)
NewScanner(source) ==
    [source |-> source, tokens |-> <<>>, start |-> 0, current |-> 0, line |-> 1]

isAtEnd(scan) == scan.current >= Len(scan.source)

isDigit(char) == char >= 48 /\ char <= 57

isAlpha(char) ==
    \/ (char >= 97 /\ char <= 122)
    \/ (char >= 65 /\ char <= 90)
    \/ char = 95

isAlphaNumeric(char) == isAlpha(char) \/ isDigit(char)

\* LoxReport writing the line and leaving hadError as it is
LoxReportNoFlag(w, line, where, message) ==
    [w EXCEPT !.stderr = Append(@, <<91, 108, 105, 110, 101, 32>> \o Itoa(line)
                                   \o <<93, 32, 69, 114, 114, 111, 114>> \o where
                                   \o <<58, 32>> \o message \o <<10>>)]

\* LoxReport(line, where, message)
LoxReport(w, line, where, message) ==
    [w EXCEPT !.stderr = Append(@, <<91, 108, 105, 110, 101, 32>> \o Itoa(line)
                                   \o <<93, 32, 69, 114, 114, 111, 114>> \o where
                                   \o <<58, 32>> \o message \o <<10>>),
              !.hadError = TRUE]

\* LoxError(line, message)
LoxError(w, line, message) == LoxReport(w, line, <<>>, message)

\* scan.advance(): [ret, w]
advance(w) ==
    IF w.panic THEN [ret |-> 0, w |-> w]
    ELSE IF ~InRange(w.scan.source, w.scan.current)
    THEN [ret |-> 0, w |-> [w EXCEPT !.panic = TRUE]]
    ELSE [ret |-> ByteAt(w.scan.source, w.scan.current),
          w   |-> [w EXCEPT !.scan.current = @ + 1]]

\* scan.peek()
peek(scan) == IF isAtEnd(scan) THEN 0 ELSE ByteAt(scan.source, scan.current)

\* scan.peekNext(): [ret, panic]
peekNext(scan) ==
    IF scan.current + 1 > Len(scan.source) THEN [ret |-> 0, panic |-> FALSE]
    ELSE IF ~InRange(scan.source, scan.current + 1) THEN [ret |-> 0, panic |-> TRUE]
    ELSE [ret |-> ByteAt(scan.source, scan.current + 1), panic |-> FALSE]

\* match reporting the expected character without consuming it
matchNoAdvance(w, expected) ==
    IF w.panic THEN [ret |-> FALSE, w |-> w]
    ELSE IF isAtEnd(w.scan) THEN [ret |-> FALSE, w |-> w]
    ELSE IF ByteAt(w.scan.source, w.scan.current) # expected THEN [ret |-> FALSE, w |-> w]
    ELSE [ret |-> TRUE, w |-> w]

\* scan.match(expected): [ret, w]
match(w, expected) ==
    IF w.panic THEN [ret |-> FALSE, w |-> w]
    ELSE IF isAtEnd(w.scan) THEN [ret |-> FALSE, w |-> w]
    ELSE IF ByteAt(w.scan.source, w.scan.current) # expected THEN [ret |-> FALSE, w |-> w]
    ELSE [ret |-> TRUE, w |-> [w EXCEPT !.scan.current = @ + 1]]

\* addTokenAndLiteral putting the new token in front of the earlier ones
addTokenAndLiteralPrepend(w, type, literal) ==
    IF w.panic THEN w
    ELSE IF ~SliceInRange(w.scan.source, w.scan.start, w.scan.current)
    THEN [w EXCEPT !.panic = TRUE]
    ELSE [w EXCEPT !.scan.tokens =
              <<[type    |-> type,
                 lexeme  |-> Slice(w.scan.source, w.scan.start, w.scan.current),
                 literal |-> literal,
                 line    |-> w.scan.line]>> \o @]

\* scan.addTokenAndLiteral(_type, literal)
addTokenAndLiteral(w, type, literal) ==
    IF w.panic THEN w
    ELSE IF ~SliceInRange(w.scan.source, w.scan.start, w.scan.current)
    THEN [w EXCEPT !.panic = TRUE]
    ELSE [w EXCEPT !.scan.tokens =
              Append(@, [type    |-> type,
                         lexeme  |-> Slice(w.scan.source, w.scan.start, w.scan.current),
                         literal |-> literal,
                         line    |-> w.scan.line])]

\* addToken handing an empty string literal in the place of the Empty one
addTokenStringLiteral(w, type) == addTokenAndLiteral(w, type, LoxString(<<>>))

\* scan.addToken(_type)
addToken(w, type) == addTokenAndLiteral(w, type, LoxEmptyLiteral)

\* for scan.isDigit(scan.peek()) { scan.advance() }
RECURSIVE digitRun(_)
digitRun(w) ==
    IF ~w.panic /\ isDigit(peek(w.scan)) THEN digitRun(advance(w).w) ELSE w

\* scan.number()
number(w) ==
    LET w1   == digitRun(w)
        dot  == ~w1.panic /\ peek(w1.scan) = 46
        next == peekNext(w1.scan)                  \* read only when dot holds
        w2   == IF ~dot THEN w1
                ELSE IF next.panic THEN [w1 EXCEPT !.panic = TRUE]
                ELSE IF isDigit(next.ret) THEN digitRun(advance(w1).w)
                ELSE w1
    IN  IF w2.panic THEN w2
        ELSE IF ~SliceInRange(w2.scan.source, w2.scan.start, w2.scan.current)
        THEN [w2 EXCEPT !.panic = TRUE]
        ELSE addTokenAndLiteral(w2, NUMBER,
                 LoxNumber(ParseFloat(Slice(w2.scan.source, w2.scan.start, w2.scan.current))))

\* for scan.isAlphaNumeric(scan.peek()) { scan.advance() }
RECURSIVE wordRun(_)
wordRun(w) ==
    IF ~w.panic /\ isAlphaNumeric(peek(w.scan)) THEN wordRun(advance(w).w) ELSE w

\* scan.identifier()
identifier(w) ==
    LET w1 == wordRun(w)
    IN  IF w1.panic THEN w1
        ELSE IF ~SliceInRange(w1.scan.source, w1.scan.start, w1.scan.current)
        THEN [w1 EXCEPT !.panic = TRUE]
        ELSE LET text == Slice(w1.scan.source, w1.scan.start, w1.scan.current)
             IN  addToken(w1, IF text \in DOMAIN keywords THEN keywords[text]
                              ELSE IDENTIFIER)

\* The loop over a string's text without the count of its newlines
RECURSIVE stringBodyNoLineCount(_)
stringBodyNoLineCount(w) ==
    IF ~w.panic /\ peek(w.scan) # 34 /\ ~isAtEnd(w.scan)
    THEN stringBodyNoLineCount(advance(w).w)
    ELSE w

\* for scan.peek() != '"' && !scan.isAtEnd() { if scan.peek() == '\n' { scan.line++ }; scan.advance() }
RECURSIVE stringBody(_)
stringBody(w) ==
    IF ~w.panic /\ peek(w.scan) # 34 /\ ~isAtEnd(w.scan)
    THEN stringBody(advance(IF peek(w.scan) = 10
                            THEN [w EXCEPT !.scan.line = @ + 1] ELSE w).w)
    ELSE w

\* The literal's value with the quotes kept: scan.source[scan.start : scan.current]
stringValueWithQuotes(scan) == Slice(scan.source, scan.start, scan.current)

\* The value of the STRING token's literal: scan.source[scan.start+1 : scan.current-1]
stringValue(scan) == Slice(scan.source, scan.start + 1, scan.current - 1)

\* scan.parseString()
parseString(w) ==
    LET w1 == stringBody(w)
    IN  IF w1.panic THEN w1
        ELSE IF isAtEnd(w1.scan)
        THEN LoxError(w1, w1.scan.line,      \* "Unterminated string."
                 <<85, 110, 116, 101, 114, 109, 105, 110, 97, 116, 101, 100, 32,
                   115, 116, 114, 105, 110, 103, 46>>)
        ELSE LET w2 == advance(w1).w
             IN  IF w2.panic THEN w2
                 ELSE IF ~SliceInRange(w2.scan.source, w2.scan.start + 1, w2.scan.current - 1)
                 THEN [w2 EXCEPT !.panic = TRUE]
                 ELSE addTokenAndLiteral(w2, TOK_STRING, LoxString(stringValue(w2.scan)))

\* for scan.peek() != '\n' && !scan.isAtEnd() { scan.advance() }
\* The loop over a comment that consumes the newline that ends it as well
RECURSIVE commentBodyThroughNewline(_)
commentBodyThroughNewline(w) ==
    IF ~w.panic /\ ~isAtEnd(w.scan)
    THEN IF peek(w.scan) = 10 THEN advance(w).w
         ELSE commentBodyThroughNewline(advance(w).w)
    ELSE w

RECURSIVE commentBody(_)
commentBody(w) ==
    IF ~w.panic /\ peek(w.scan) # 10 /\ ~isAtEnd(w.scan)
    THEN commentBody(advance(w).w) ELSE w

\* if scan.match('=') { scan.addToken(two) } else { scan.addToken(one) }
oneOrTwo(w, one, two) ==
    LET m == match(w, 61)
    IN  IF m.ret THEN addToken(m.w, two) ELSE addToken(m.w, one)

\* The diagnostic reported with scan.start in the place of scan.line
unexpectedCharacterAtStart(w, char) ==
    LoxError(w, w.scan.start,
        <<85, 110, 101, 120, 112, 101, 99, 116, 101, 100, 32, 99, 104, 97, 114, 97,
          99, 116, 101, 114, 58, 32>> \o <<char>>)

\* LoxError(scan.line, fmt.Sprintf("Unexpected character: %c", char))
unexpectedCharacter(w, char) ==
    LoxError(w, w.scan.line,
        <<85, 110, 101, 120, 112, 101, 99, 116, 101, 100, 32, 99, 104, 97, 114, 97,
          99, 116, 101, 114, 58, 32>> \o <<char>>)

\* scan.scanToken()
scanToken(w0) ==
    LET a    == advance(w0)
        char == a.ret
        w    == a.w
    IN  IF w.panic THEN w
        ELSE CASE char = 40 -> addToken(w, LEFT_PAREN)
               [] char = 41 -> addToken(w, RIGHT_PAREN)
               [] char = 123 -> addToken(w, LEFT_BRACE)
               [] char = 125 -> addToken(w, RIGHT_BRACE)
               [] char = 44 -> addToken(w, COMMA)
               [] char = 46 -> addToken(w, DOT)
               [] char = 45 -> addToken(w, MINUS)
               [] char = 43 -> addToken(w, PLUS)
               [] char = 59 -> addToken(w, SEMICOLON)
               [] char = 42 -> addToken(w, STAR)
               [] char = 33 -> oneOrTwo(w, BANG, BANG_EQUAL)
               [] char = 61 -> oneOrTwo(w, EQUAL, EQUAL_EQUAL)
               [] char = 60 -> oneOrTwo(w, LESS, LESS_EQUAL)
               [] char = 62 -> oneOrTwo(w, GREATER, GREATER_EQUAL)
               [] char = 47 -> LET m == match(w, 47)
                               IN  IF m.ret THEN commentBody(m.w) ELSE addToken(m.w, SLASH)
               [] char = 32 \/ char = 13 \/ char = 9 -> w
               [] char = 10 -> [w EXCEPT !.scan.line = @ + 1]
               [] char = 34 -> parseString(w)
               [] OTHER -> IF isDigit(char) THEN number(w)
                           ELSE IF isAlpha(char) THEN identifier(w)
                           ELSE unexpectedCharacter(w, char)

\* The start of a loop iteration that leaves start where the last lexeme began
beginLexemeKeepStart(scan) == scan

\* scan.start = scan.current
beginLexeme(scan) == [scan EXCEPT !.start = scan.current]

\* The EOF token with the line of the first token instead of scan.line
EOFTokenFirstLine(scan) ==
    [type |-> EOF, lexeme |-> <<>>, literal |-> LoxEmptyLiteral, line |-> 1]

\* The EOF token ScanTokens appends
EOFToken(scan) ==
    [type |-> EOF, lexeme |-> <<>>, literal |-> LoxEmptyLiteral, line |-> scan.line]

\* ------------------------------------------------------------------------
\* Bounds of the model.

\* Longest file made of characters of CoreAlphabet alone
MaxLen == 4

\* Most characters of AroundAlphabet placed around a word of Words
MaxAround == 2

\* Most lines the interactive loop reads
MaxPromptLines == 2

\* The characters files are made of in every combination:
\* '1'  '.'  '"'  '\'  newline  '/'  'a'
CoreAlphabet == {49, 46, 34, 92, 10, 47, 97}

\* The characters placed before and after a word: '1'  'a'  '"'  newline
AroundAlphabet == {49, 97, 34, 10}

Strings(alphabet, n) == UNION {[1..k -> alphabet] : k \in 0..n}

\* Lexemes placed once in a file, between characters of AroundAlphabet.
Words ==
    \* ( ) { } , - + ; *
    {<<40>>, <<41>>, <<123>>, <<125>>, <<44>>, <<45>>, <<43>>, <<59>>, <<42>>}
    \* = == ! != < <= > >=
    \cup {<<61>>, <<61, 61>>, <<33>>, <<33, 61>>, <<60>>, <<60, 61>>, <<62>>, <<62, 61>>}
    \* space, carriage return, tab
    \cup {<<32>>, <<13>>, <<9>>}
    \* the ends of the digit and letter ranges and their neighbours:
    \* 0 9 :  @ A Z [  _ ` z
    \cup {<<48>>, <<57>>, <<58>>, <<64>>, <<65>>, <<90>>, <<91>>, <<95>>, <<96>>, <<122>>}
    \* the reserved words, "forest" and "For"
    \cup DOMAIN keywords
    \cup {<<102, 111, 114, 101, 115, 116>>, <<70, 111, 114>>}

\* The contents a readable file may have.
Files ==
    Strings(CoreAlphabet, MaxLen)
    \cup UNION {{pre \o wd \o post : wd \in Words,
                                      post \in Strings(AroundAlphabet, MaxAround - Len(pre))}
                : pre \in Strings(AroundAlphabet, MaxAround)}

\* The lines typed at the prompt (a line holds no newline):
\* empty, 1, \, "a, a=1, "a"
PromptLines ==
    {<<>>, <<49>>, <<92>>, <<34, 97>>, <<97, 61, 49>>, <<34, 97, 34>>}

\* os.Args: program name, then the arguments.
\* ./golox | ./golox tokenize | ./golox tokenize test.lox | ./golox parse test.lox
ArgVectors ==
    LET prog == <<46, 47, 103, 111, 108, 111, 120>>
        tok  == <<116, 111, 107, 101, 110, 105, 122, 101>>
        prs  == <<112, 97, 114, 115, 101>>
        file == <<116, 101, 115, 116, 46, 108, 111, 120>>
    IN  {<<prog>>, <<prog, tok>>, <<prog, tok, file>>, <<prog, prs, file>>}

\* ------------------------------------------------------------------------
\* State.
\*   pc        where the process is
\*   entry     "" before the process starts, then "main" or "RunPrompt"
\*   args      os.Args
\*   scan      the Scanner of the current Run (the zero Scanner before any)
\*   hadError  the package variable hadError
\*   stderr    the writes to os.Stderr, in order
\*   stdout    the writes to os.Stdout, in order
\*   exitCode  the process's exit code, -1 while it runs
\*   nread     lines read by the interactive loop
VARIABLES pc, entry, args, scan, hadError, stderr, stdout, exitCode, nread,
          expr, result

vars == <<pc, entry, args, scan, hadError, stderr, stdout, exitCode, nread,
         expr, result>>

\* No expression is under evaluation, and no value has been returned
NoExpr == [node |-> "none"]

NoResult == [tag |-> "none"]

ZeroScanner == [source |-> <<>>, tokens |-> <<>>, start |-> 0, current |-> 0, line |-> 0]

Running == 0 - 1

Init ==
    /\ pc = "start"
    /\ entry = ""
    /\ args = <<>>
    /\ scan = ZeroScanner
    /\ hadError = FALSE
    /\ stderr = <<>>
    /\ stdout = <<>>
    /\ exitCode = Running
    /\ nread = 0
    /\ expr = NoExpr
    /\ result = NoResult

\* os.Exit(code)
Exit(code) == pc' = "exited" /\ exitCode' = code

\* main(), up to the call of RunFile: the banner, then the checks of os.Args.
Main ==
    /\ pc = "start"
    /\ \E argv \in ArgVectors :
        LET banner == <<76, 111, 103, 115, 32, 102, 114, 111, 109, 32, 121, 111, 117, 114,
                        32, 112, 114, 111, 103, 114, 97, 109, 32, 119, 105, 108, 108, 32,
                        97, 112, 112, 101, 97, 114, 32, 104, 101, 114, 101, 33, 10>>
            usage  == <<85, 115, 97, 103, 101, 58, 32, 46, 47, 121, 111, 117, 114, 95, 112,
                        114, 111, 103, 114, 97, 109, 46, 115, 104, 32, 116, 111, 107, 101,
                        110, 105, 122, 101, 32, 60, 102, 105, 108, 101, 110, 97, 109, 101,
                        62, 10>>
            unknown == <<85, 110, 107, 110, 111, 119, 110, 32, 99, 111, 109, 109, 97, 110,
                         100, 58, 32>>
        IN  /\ entry' = "main"
            /\ args' = argv
            /\ IF Len(argv) < 3
               THEN stderr' = <<banner, usage>> /\ Exit(1)
               ELSE IF argv[2] # <<116, 111, 107, 101, 110, 105, 122, 101>>
               THEN stderr' = <<banner, unknown \o argv[2] \o <<10>>>> /\ Exit(1)
               ELSE stderr' = <<banner>> /\ pc' = "RunFile" /\ exitCode' = exitCode
    /\ UNCHANGED <<scan, hadError, stdout, nread, expr, result>>

\* RunFile(path), the file unreadable: the message and os.Exit(1).
RunFileError ==
    /\ pc = "RunFile"
    /\ stderr' = Append(stderr,
           <<69, 114, 114, 111, 114, 32, 114, 101, 97, 100, 105, 110, 103, 32, 102, 105,
             108, 101, 58, 32>>
           \o <<111, 112, 101, 110, 32>> \o args[3]
           \o <<58, 32, 110, 111, 32, 115, 117, 99, 104, 32, 102, 105, 108, 101, 32, 111,
                114, 32, 100, 105, 114, 101, 99, 116, 111, 114, 121>> \o <<10>>)
    /\ Exit(1)
    /\ UNCHANGED <<entry, args, scan, hadError, stdout, nread, expr, result>>

\* RunFile(path), the file read: Run(contents) up to ScanTokens' loop.
RunFile ==
    /\ pc = "RunFile"
    /\ \E contents \in Files : scan' = NewScanner(contents)
    /\ pc' = "ScanTokens"
    /\ UNCHANGED <<entry, args, hadError, stderr, stdout, exitCode, nread, expr, result>>

\* One iteration of ScanTokens' loop: scan.start = scan.current; scan.scanToken().
\* An index out of range panics: the runtime ends the process with exit code 2
\* (its own report on stderr is left out).
ScanTokensLoop ==
    /\ pc = "ScanTokens"
    /\ ~isAtEnd(scan)
    /\ LET w == scanToken([scan     |-> beginLexeme(scan),
                           hadError |-> hadError,
                           stderr   |-> stderr,
                           panic    |-> FALSE])
       IN  /\ scan' = w.scan
           /\ hadError' = w.hadError
           /\ stderr' = w.stderr
           /\ IF w.panic
              THEN pc' = "panicked" /\ exitCode' = 2
              ELSE pc' = "ScanTokens" /\ exitCode' = exitCode
    /\ UNCHANGED <<entry, args, stdout, nread, expr, result>>

\* ScanTokens after its loop: the EOF token is appended and the tokens returned.
ScanTokensReturn ==
    /\ pc = "ScanTokens"
    /\ isAtEnd(scan)
    /\ scan' = [scan EXCEPT !.tokens = Append(@, EOFToken(scan))]
    /\ pc' = "RunPrint"
    /\ UNCHANGED <<entry, args, hadError, stderr, stdout, exitCode, nread, expr, result>>

\* What Run writes for the tokens: fmt.Printf("%s\n", &tok) for each
RunOutput(tokens) == [i \in 1..Len(tokens) |-> TokenString(tokens[i]) \o <<10>>]

\* Run's loop over the tokens, and its return to RunFile or RunPrompt.
RunPrint ==
    /\ pc = "RunPrint"
    /\ stdout' = stdout \o RunOutput(scan.tokens)
    /\ pc' = IF entry = "main" THEN "mainReturn" ELSE "promptPrint"
    /\ UNCHANGED <<entry, args, scan, hadError, stderr, exitCode, nread, expr, result>>

\* main() after RunFile: os.Exit(65) if hadError, else the return from main.
MainReturn ==
    /\ pc = "mainReturn"
    /\ Exit(IF hadError THEN 65 ELSE 0)
    /\ UNCHANGED <<entry, args, scan, hadError, stderr, stdout, nread, expr, result>>

\* RunPrompt(), entered: the interactive loop, which main() does not call.
RunPrompt ==
    /\ pc = "start"
    /\ entry' = "RunPrompt"
    /\ pc' = "promptPrint"
    /\ UNCHANGED <<args, scan, hadError, stderr, stdout, exitCode, nread, expr, result>>

\* fmt.Print("> ")
PromptPrint ==
    /\ pc = "promptPrint"
    /\ stdout' = Append(stdout, <<62, 32>>)
    /\ pc' = "promptRead"
    /\ UNCHANGED <<entry, args, scan, hadError, stderr, exitCode, nread, expr, result>>

\* reader.Scan() returns a line: Run(line) up to ScanTokens' loop.
PromptLine ==
    /\ pc = "promptRead"
    /\ nread < MaxPromptLines
    /\ \E line \in PromptLines : scan' = NewScanner(line)
    /\ nread' = nread + 1
    /\ pc' = "ScanTokens"
    /\ UNCHANGED <<entry, args, hadError, stderr, stdout, exitCode, expr, result>>

\* reader.Scan() returns false: fmt.Print("\nExit\n") and RunPrompt returns.
PromptEnd ==
    /\ pc = "promptRead"
    /\ stdout' = Append(stdout, <<10, 69, 120, 105, 116, 10>>)
    /\ pc' = "promptReturned"
    /\ UNCHANGED <<entry, args, scan, hadError, stderr, exitCode, nread, expr, result>>

Next ==
    \/ Main
    \/ RunFileError
    \/ RunFile
    \/ ScanTokensLoop
    \/ ScanTokensReturn
    \/ RunPrint
    \/ MainReturn
    \/ RunPrompt
    \/ PromptPrint
    \/ PromptLine
    \/ PromptEnd

Spec == Init /\ [][Next]_vars

\* ---- expr.go: the expression tree and its evaluator ----

\* The largest number a Literal leaf of the checked trees holds
MaxOperand == 2

\* &Literal{Value: value}
Literal(value) == [node |-> "Literal", Value |-> value]

\* &Binary{Left: left, Right: right, Op: op}
Binary(left, right, op) == [node |-> "Binary", Left |-> left, Right |-> right, Op |-> op]

\* A float64, kept as the exact fraction num/den with den >= 0: den = 0 stands
\* for +Inf (num = 1), -Inf (num = -1) and NaN (num = 0). Rounding and the
\* sign of zero are left out.
RECURSIVE GCD(_, _)
GCD(a, b) == IF b = 0 THEN a ELSE GCD(b, a % b)

Abs(n) == IF n < 0 THEN 0 - n ELSE n

Sign(n) == IF n < 0 THEN 0 - 1 ELSE IF n > 0 THEN 1 ELSE 0

Fraction(n, d) ==
    IF d = 0 THEN [num |-> Sign(n), den |-> 0]
    ELSE LET g == GCD(Abs(n), Abs(d))
         IN  [num |-> (Sign(d) * n) \div g, den |-> Abs(d) \div g]

RECURSIVE Pow10(_)
Pow10(n) == IF n = 0 THEN 1 ELSE 10 * Pow10(n - 1)

\* The float64 a LoxNumber holds, from the decimal <<m, s>> = m / 10^s
NumberValue(literal) == Fraction(literal.value[1], Pow10(literal.value[2]))

\* left + right
FloatAdd(x, y) ==
    IF x.den = 0 /\ y.den = 0
    THEN (IF x.num = y.num THEN x ELSE Fraction(0, 0))
    ELSE Fraction(x.num * y.den + y.num * x.den, x.den * y.den)

\* left - right
FloatSub(x, y) == FloatAdd(x, [num |-> 0 - y.num, den |-> y.den])

\* left * right
FloatMul(x, y) == Fraction(x.num * y.num, x.den * y.den)

\* left / right
FloatDiv(x, y) ==
    IF y.num = 0 THEN Fraction(x.num * y.den, 0)
    ELSE Fraction(x.num * y.den * Sign(y.num), x.den * Abs(y.num))

\* The values of Go's `any` the evaluator hands around, with their dynamic
\* type, and the panic that ends an evaluation
AnyLiteral(value) == [tag |-> "LoxLiteral", value |-> value]

AnyFloat64(value) == [tag |-> "float64", value |-> value]

Panic(message) == [tag |-> "panic", value |-> message]

\* func (e *Evaluator) VisitLiteralExpr(literal *Literal) any
VisitLiteralExpr(literal) == AnyLiteral(literal.Value)

\* v.(float64): the assertion panics unless the dynamic type is float64
AssertFloat64(v) ==
    IF v.tag = "panic" \/ v.tag = "float64" THEN v
    ELSE Panic("interface conversion: interface {} is not float64")

RECURSIVE Accept(_)
\* func (e *Evaluator) VisitBinaryExpr(binary *Binary) any
VisitBinaryExpr(binary) ==
    LET left == AssertFloat64(Accept(binary.Left))
    IN  IF left.tag = "panic" THEN left
        ELSE LET right == AssertFloat64(Accept(binary.Right))
             IN  IF right.tag = "panic" THEN right
                 ELSE CASE binary.Op = "+" -> AnyFloat64(FloatAdd(left.value, right.value))
                        [] binary.Op = "-" -> AnyFloat64(FloatSub(left.value, right.value))
                        [] binary.Op = "*" -> AnyFloat64(FloatMul(left.value, right.value))
                        [] binary.Op = "/" -> AnyFloat64(FloatDiv(left.value, right.value))
                        [] OTHER -> Panic("unknown operator")

\* func (l *Literal) Accept, func (b *Binary) Accept, with the Evaluator as visitor
Accept(e) ==
    IF e.node = "Literal" THEN VisitLiteralExpr(e) ELSE VisitBinaryExpr(e)

\* The trees the evaluator is run on: leaves holding numbers, a string and the
\* Empty literal; Binary nodes over two leaves; Binary nodes with one Binary child.
Leaves ==
    {Literal(LoxNumber(<<n, 0>>)) : n \in 0..MaxOperand}
    \cup {Literal(LoxNumber(<<15, 1>>)), Literal(LoxString(<<97>>)), Literal(LoxEmptyLiteral)}

Ops == {"+", "-", "*", "/", "%"}

FlatBinaries == {Binary(l, r, op) : l \in Leaves, r \in Leaves, op \in Ops}

Exprs ==
    Leaves \cup FlatBinaries
    \cup {Binary(b, r, op) : b \in FlatBinaries, r \in {Literal(LoxNumber(<<1, 0>>))}, op \in Ops}
    \cup {Binary(l, b, op) : l \in {Literal(LoxNumber(<<1, 0>>))}, b \in FlatBinaries, op \in Ops}

\* A caller holds an expression and is about to call expr.Accept(&Evaluator{}).
EvalInit ==
    /\ pc = "Accept"
    /\ entry = ""
    /\ args = <<>>
    /\ scan = ZeroScanner
    /\ hadError = FALSE
    /\ stderr = <<>>
    /\ stdout = <<>>
    /\ exitCode = Running
    /\ nread = 0
    /\ expr \in Exprs
    /\ result = NoResult

\* The call returns its value, or the panic unwinds out of it.
Evaluate ==
    /\ result' = Accept(expr)
    /\ pc' = IF result'.tag = "panic" THEN "evalPanicked" ELSE "evalReturned"
    /\ UNCHANGED <<entry, args, scan, hadError, stderr, stdout, exitCode, nread, expr>>

\* literal.Accept(e)
AcceptLiteral == pc = "Accept" /\ expr.node = "Literal" /\ Evaluate

\* binary.Accept(e)
AcceptBinary == pc = "Accept" /\ expr.node = "Binary" /\ Evaluate

EvalNext == AcceptLiteral \/ AcceptBinary

EvalSpec == EvalInit /\ [][EvalNext]_vars

\* ------------------------------------------------------------------------
\* Properties.

\* A scan step is about to run on the character c at scan.current
StepAt == pc = "ScanTokens" /\ ~isAtEnd(scan)

NextChar == ByteAt(scan.source, scan.current)

LastToken == scan.tokens[Len(scan.tokens)]

\* A write to stderr that is a diagnostic line: it begins "[line "
IsDiagnostic(wr) == Len(wr) >= 6 /\ SubSeq(wr, 1, 6) = <<91, 108, 105, 110, 101, 32>>

Diagnostics == SelectSeq(stderr, IsDiagnostic)

\* C1: scanning never fails by raising: no step of a scan reads the source at an
\* index outside 0..len(source)-1, so no scan step ever ends in a panic.
C1_ScanNeverPanics == pc # "panicked"

\* C2: while a scan runs its tokens hold no EOF token, and the sequence it
\* returns holds exactly one, as its last element, with an empty lexeme, the
\* Empty literal and the line the scanner's line counter has when the loop stops.
C2_OneEOFLast ==
    /\ pc = "ScanTokens" => \A i \in 1..Len(scan.tokens) : scan.tokens[i].type # EOF
    /\ pc = "RunPrint" =>
        /\ Len(scan.tokens) >= 1
        /\ LastToken.type = EOF
        /\ LastToken.lexeme = <<>>
        /\ LastToken.literal.kind = "LoxEmptyLiteral"
        /\ LastToken.line = scan.line
        /\ \A i \in 1..(Len(scan.tokens) - 1) : scan.tokens[i].type # EOF

\* A scan of a non-empty, two-line source has returned, EOF after other tokens.
C2_Witness ==
    /\ pc = "RunPrint"
    /\ Len(scan.tokens) >= 2
    /\ scan.line = 2
    /\ LastToken.type = EOF

\* ---- C3 ----

\* The characters scanToken has a case for: punctuation, operator starts,
\* whitespace, newline, quote, digits, letters and underscore
Handled(c) ==
    \/ c \in {40, 41, 123, 125, 44, 46, 45, 43, 59, 42, 47}
    \/ c \in {33, 61, 60, 62}
    \/ c \in {32, 13, 9, 10, 34}
    \/ c \in 48..57
    \/ c \in 65..90
    \/ c \in 97..122
    \/ c = 95

\* The diagnostic line for an unexpected character c on a line:
\* "[line <line>] Error: Unexpected character: <c>" and a newline
UnexpectedLine(line, c) ==
    <<91, 108, 105, 110, 101, 32>> \o Itoa(line) \o <<93, 32, 69, 114, 114, 111, 114, 58, 32>>
    \o <<85, 110, 101, 120, 112, 101, 99, 116, 101, 100, 32, 99, 104, 97, 114, 97,
         99, 116, 101, 114, 58, 32>> \o <<c>> \o <<10>>

IsUnexpected(wr) ==
    \E k \in 1..(Len(wr) - 21) :
        SubSeq(wr, k, k + 21) = <<85, 110, 101, 120, 112, 101, 99, 116, 101, 100, 32, 99,
                                  104, 97, 114, 97, 99, 116, 101, 114, 58, 32>>

\* The diagnostic lines due for the unhandled characters of s from its i-th
\* character on, in source order, leaving out the characters inside strings
\* and comments.
RECURSIVE UnexpectedFrom(_, _, _, _)
UnexpectedFrom(s, i, mode, line) ==
    IF i > Len(s) THEN <<>>
    ELSE LET c == s[i]
         IN  CASE mode = "string" ->
                    UnexpectedFrom(s, i + 1, IF c = 34 THEN "code" ELSE "string",
                                   IF c = 10 THEN line + 1 ELSE line)
               [] mode = "comment" ->
                    IF c = 10 THEN UnexpectedFrom(s, i + 1, "code", line + 1)
                    ELSE UnexpectedFrom(s, i + 1, "comment", line)
               [] OTHER ->
                    IF c = 34 THEN UnexpectedFrom(s, i + 1, "string", line)
                    ELSE IF c = 47 /\ i < Len(s) /\ s[i + 1] = 47
                    THEN UnexpectedFrom(s, i + 2, "comment", line)
                    ELSE IF c = 10 THEN UnexpectedFrom(s, i + 1, "code", line + 1)
                    ELSE IF ~Handled(c)
                    THEN <<UnexpectedLine(line, c)>> \o UnexpectedFrom(s, i + 1, "code", line)
                    ELSE UnexpectedFrom(s, i + 1, "code", line)

\* C3: a scan step on a character scanToken has no case for writes exactly one
\* "Unexpected character" diagnostic with the current line, appends no token,
\* moves the cursor by one character and leaves the scan running; and between
\* steps and at the end of a scan the "Unexpected character" diagnostics written
\* are those of the unhandled characters read so far outside strings and
\* comments, in source order.
C3_UnexpectedCharacterRecovered ==
    /\ [][(StepAt /\ ~Handled(NextChar)) =>
            /\ pc' = "ScanTokens"
            /\ stderr' = Append(stderr, UnexpectedLine(scan.line, NextChar))
            /\ scan' = [scan EXCEPT !.start = scan.current, !.current = scan.current + 1]]_vars
    /\ []((entry = "main" /\ pc \in {"ScanTokens", "RunPrint"}) =>
            SelectSeq(stderr, IsUnexpected)
              = UnexpectedFrom(Slice(scan.source, 0, scan.current), 1, "code", 1))

\* A scan has ended with two "Unexpected character" diagnostics, a token
\* scanned after the first of them.
C3_Witness ==
    /\ entry = "main"
    /\ pc = "RunPrint"
    /\ Len(SelectSeq(stderr, IsUnexpected)) = 2
    /\ Len(scan.tokens) >= 2
    /\ ~Handled(scan.source[1])

\* ---- C4 ----

\* C4: main's exit code: 1, with nothing scanned, for fewer than two arguments,
\* an unknown command or an unreadable file; otherwise 65 if the scan reported a
\* diagnostic and 0 if it reported none.
C4_ExitCode ==
    (entry = "main" /\ exitCode # Running) =>
        IF scan = ZeroScanner
        THEN exitCode = 1
        ELSE /\ Len(args) >= 3
             /\ args[2] = <<116, 111, 107, 101, 110, 105, 122, 101>>
             /\ exitCode = (IF Len(Diagnostics) > 0 THEN 65 ELSE 0)

\* ---- C5 ----

\* C5: hadError is true exactly when a diagnostic line has been written since
\* the process started; a step that writes diagnostics sets it, and no step
\* resets it.
C5_HadErrorIffReported ==
    /\ [](hadError <=> Len(Diagnostics) > 0)
    /\ [][hadError => hadError']_vars
    /\ [][Len(SelectSeq(stderr', IsDiagnostic)) > Len(Diagnostics) => hadError']_vars

\* The interactive loop is in its second scan, the first scan having reported
\* a diagnostic and the second none so far.
C5_Witness ==
    /\ entry = "RunPrompt"
    /\ nread = 2
    /\ pc = "RunPrint"
    /\ hadError
    /\ Len(Diagnostics) = 1
    /\ Len(scan.tokens) >= 2

\* ---- C6 ----

\* The symbolic names of the token kinds
TokenTypeName ==
      (LEFT_PAREN :> <<76, 69, 70, 84, 95, 80, 65, 82, 69, 78>>)
   @@ (RIGHT_PAREN :> <<82, 73, 71, 72, 84, 95, 80, 65, 82, 69, 78>>)
   @@ (LEFT_BRACE :> <<76, 69, 70, 84, 95, 66, 82, 65, 67, 69>>)
   @@ (RIGHT_BRACE :> <<82, 73, 71, 72, 84, 95, 66, 82, 65, 67, 69>>)
   @@ (COMMA :> <<67, 79, 77, 77, 65>>)
   @@ (DOT :> <<68, 79, 84>>)
   @@ (MINUS :> <<77, 73, 78, 85, 83>>)
   @@ (PLUS :> <<80, 76, 85, 83>>)
   @@ (SEMICOLON :> <<83, 69, 77, 73, 67, 79, 76, 79, 78>>)
   @@ (SLASH :> <<83, 76, 65, 83, 72>>)
   @@ (STAR :> <<83, 84, 65, 82>>)
   @@ (BANG :> <<66, 65, 78, 71>>)
   @@ (BANG_EQUAL :> <<66, 65, 78, 71, 95, 69, 81, 85, 65, 76>>)
   @@ (EQUAL :> <<69, 81, 85, 65, 76>>)
   @@ (EQUAL_EQUAL :> <<69, 81, 85, 65, 76, 95, 69, 81, 85, 65, 76>>)
   @@ (GREATER :> <<71, 82, 69, 65, 84, 69, 82>>)
   @@ (GREATER_EQUAL :> <<71, 82, 69, 65, 84, 69, 82, 95, 69, 81, 85, 65, 76>>)
   @@ (LESS :> <<76, 69, 83, 83>>)
   @@ (LESS_EQUAL :> <<76, 69, 83, 83, 95, 69, 81, 85, 65, 76>>)
   @@ (IDENTIFIER :> <<73, 68, 69, 78, 84, 73, 70, 73, 69, 82>>)
   @@ (TOK_STRING :> <<83, 84, 82, 73, 78, 71>>)
   @@ (NUMBER :> <<78, 85, 77, 66, 69, 82>>)
   @@ (AND :> <<65, 78, 68>>)
   @@ (CLASS :> <<67, 76, 65, 83, 83>>)
   @@ (KW_ELSE :> <<69, 76, 83, 69>>)
   @@ (KW_FALSE :> <<70, 65, 76, 83, 69>>)
   @@ (FUN :> <<70, 85, 78>>)
   @@ (FOR :> <<70, 79, 82>>)
   @@ (KW_IF :> <<73, 70>>)
   @@ (NIL :> <<78, 73, 76>>)
   @@ (OR :> <<79, 82>>)
   @@ (PRINT :> <<80, 82, 73, 78, 84>>)
   @@ (RETURN :> <<82, 69, 84, 85, 82, 78>>)
   @@ (SUPER :> <<83, 85, 80, 69, 82>>)
   @@ (THIS :> <<84, 72, 73, 83>>)
   @@ (KW_TRUE :> <<84, 82, 85, 69>>)
   @@ (VAR :> <<86, 65, 82>>)
   @@ (WHILE :> <<87, 72, 73, 76, 69>>)
   @@ (EOF :> <<69, 79, 70>>)

\* C6: when Run has printed, stdout holds one line per token, in scan order, each
\* the kind's name, a space, the lexeme, a space and the literal's debug form;
\* the last line is "EOF  null".
C6_RunPrintsKindNames ==
    (entry = "main" /\ pc = "mainReturn") =>
        /\ stdout = [i \in 1..Len(scan.tokens) |->
                        TokenTypeName[scan.tokens[i].type] \o <<32>> \o scan.tokens[i].lexeme
                        \o <<32>> \o RawPrint(scan.tokens[i].literal) \o <<10>>]
        /\ stdout[Len(stdout)] = <<69, 79, 70, 32, 32, 110, 117, 108, 108, 10>>

\* ---- C7 ----

IsDigitChar(c) == c \in 48..57

\* The end of the maximal run of digits of s that starts at index i (0-based)
RECURSIVE DigitRunEnd(_, _)
DigitRunEnd(s, i) ==
    IF i < Len(s) /\ IsDigitChar(ByteAt(s, i)) THEN DigitRunEnd(s, i + 1) ELSE i

\* The end of the number lexeme of s that starts at index i
NumberEnd(s, i) ==
    LET e == DigitRunEnd(s, i)
    IN  IF e + 1 < Len(s) /\ ByteAt(s, e) = 46 /\ IsDigitChar(ByteAt(s, e + 1))
        THEN DigitRunEnd(s, e + 1)
        ELSE e

\* C7: a scan step on a digit appends one NUMBER token whose lexeme is the
\* maximal digit run, with '.' and a further digit run only when a digit follows
\* the '.', and leaves the cursor behind it; a '.' left behind a NUMBER token is
\* scanned as a DOT token; no NUMBER lexeme ends in '.'.
C7_NumberLexeme ==
    /\ [][(StepAt /\ IsDigitChar(NextChar)) =>
            LET e == NumberEnd(scan.source, scan.current)
            IN  /\ pc' = "ScanTokens"
                /\ scan'.current = e
                /\ Len(scan'.tokens) = Len(scan.tokens) + 1
                /\ SubSeq(scan'.tokens, 1, Len(scan.tokens)) = scan.tokens
                /\ scan'.tokens[Len(scan'.tokens)].type = NUMBER
                /\ scan'.tokens[Len(scan'.tokens)].lexeme
                     = Slice(scan.source, scan.current, e)]_vars
    /\ [][(StepAt /\ NextChar = 46 /\ Len(scan.tokens) > 0 /\ LastToken.type = NUMBER) =>
            /\ Len(scan'.tokens) = Len(scan.tokens) + 1
            /\ scan'.tokens[Len(scan'.tokens)].type = DOT]_vars
    /\ [](\A i \in 1..Len(scan.tokens) :
            scan.tokens[i].type = NUMBER =>
                scan.tokens[i].lexeme[Len(scan.tokens[i].lexeme)] # 46)

\* ---- C8 ----

OneCharKind(c) ==
    CASE c = 33 -> BANG [] c = 61 -> EQUAL [] c = 60 -> LESS [] c = 62 -> GREATER

TwoCharKind(c) ==
    CASE c = 33 -> BANG_EQUAL [] c = 61 -> EQUAL_EQUAL [] c = 60 -> LESS_EQUAL
      [] c = 62 -> GREATER_EQUAL

\* C8: a scan step on '!', '=', '<' or '>' followed by '=' consumes both and
\* appends the two-character kind; followed by anything else, or by the end of
\* the input, it appends the one-character kind and leaves the cursor on the
\* following character, where the next step starts.
C8_OneOrTwoCharOperator ==
    [][(StepAt /\ NextChar \in {33, 61, 60, 62}) =>
         LET c     == NextChar
             isTwo == scan.current + 1 < Len(scan.source)
                      /\ ByteAt(scan.source, scan.current + 1) = 61
         IN  /\ pc' = "ScanTokens"
             /\ scan'.current = scan.current + (IF isTwo THEN 2 ELSE 1)
             /\ scan'.tokens =
                  Append(scan.tokens,
                         [type    |-> IF isTwo THEN TwoCharKind(c) ELSE OneCharKind(c),
                          lexeme  |-> IF isTwo THEN <<c, 61>> ELSE <<c>>,
                          literal |-> LoxEmptyLiteral,
                          line    |-> scan.line])]_vars

\* '<' has been scanned as LESS with the character after it, not '=', unread.
C8_Witness ==
    /\ pc = "ScanTokens"
    /\ Len(scan.tokens) > 0
    /\ LastToken.type = LESS
    /\ ~isAtEnd(scan)
    /\ scan.current = scan.start + 1

\* ---- C9 ----

IsWordChar(c) == c \in 48..57 \/ c \in 65..90 \/ c \in 97..122 \/ c = 95

\* The end of the maximal run of letters, digits and underscores of s from index i
RECURSIVE WordEnd(_, _)
WordEnd(s, i) == IF i < Len(s) /\ IsWordChar(ByteAt(s, i)) THEN WordEnd(s, i + 1) ELSE i

\* A word in capitals, if it is all lower-case letters (else no kind's name)
UpperCase(word) == [i \in 1..Len(word) |-> IF word[i] \in 97..122 THEN word[i] - 32 ELSE 0]

\* The 16 keyword kinds, AND to WHILE
KeywordKinds == AND..WHILE

\* The kind a word has: the keyword kind named like the word, IDENTIFIER if none is
WordKind(word) ==
    IF \E k \in KeywordKinds : TokenTypeName[k] = UpperCase(word)
    THEN CHOOSE k \in KeywordKinds : TokenTypeName[k] = UpperCase(word)
    ELSE IDENTIFIER

\* C9: a scan step on a letter or underscore appends one token whose lexeme is
\* the maximal run of letters, digits and underscores, of the keyword kind of
\* that spelling if the whole lexeme is a reserved word and IDENTIFIER otherwise.
C9_WordKind ==
    [][(StepAt /\ (NextChar \in 65..90 \/ NextChar \in 97..122 \/ NextChar = 95)) =>
         LET e == WordEnd(scan.source, scan.current)
             lexeme == Slice(scan.source, scan.current, e)
         IN  /\ pc' = "ScanTokens"
             /\ scan'.current = e
             /\ scan'.tokens = Append(scan.tokens, [type    |-> WordKind(lexeme),
                                                    lexeme  |-> lexeme,
                                                    literal |-> LoxEmptyLiteral,
                                                    line    |-> scan.line])]_vars

\* "forest" has been scanned as one IDENTIFIER token.
C9_Witness ==
    /\ Len(scan.tokens) > 0
    /\ LastToken.type = IDENTIFIER
    /\ LastToken.lexeme = <<102, 111, 114, 101, 115, 116>>

\* ---- C10 ----

\* A quote at index j of s, inside the string opened at index open, is escaped:
\* an odd number of backslashes stands right before it
RECURSIVE BackslashesBefore(_, _, _)
BackslashesBefore(s, j, open) ==
    IF j - 1 > open /\ ByteAt(s, j - 1) = 92 THEN 1 + BackslashesBefore(s, j - 1, open) ELSE 0

Escaped(s, j, open) == BackslashesBefore(s, j, open) % 2 = 1

\* The quotes of s after index open
QuotesAfter(s, open) == {j \in (open + 1)..(Len(s) - 1) : ByteAt(s, j) = 34}

UnescapedQuotesAfter(s, open) == {j \in QuotesAfter(s, open) : ~Escaped(s, j, open)}

Least(S) == CHOOSE j \in S : \A k \in S : j <= k

\* A scan step on a quote at scan.current, closed by the quote at index close,
\* appends one STRING token: the quoted text as lexeme, the text between the
\* quotes as literal value
StringTokenTo(close) ==
    /\ pc' = "ScanTokens"
    /\ scan'.current = close + 1
    /\ Len(scan'.tokens) = Len(scan.tokens) + 1
    /\ SubSeq(scan'.tokens, 1, Len(scan.tokens)) = scan.tokens
    /\ scan'.tokens[Len(scan'.tokens)].type = TOK_STRING
    /\ scan'.tokens[Len(scan'.tokens)].lexeme = Slice(scan.source, scan.current, close + 1)
    /\ scan'.tokens[Len(scan'.tokens)].literal
         = [kind |-> "LoxString", value |-> Slice(scan.source, scan.current + 1, close)]

\* C10, as claimed: a string literal extends to the next unescaped quote; when
\* there is one, the step appends the STRING token of the text up to it.
C10_StringToUnescapedQuote ==
    [][(StepAt /\ NextChar = 34 /\ UnescapedQuotesAfter(scan.source, scan.current) # {}) =>
         StringTokenTo(Least(UnescapedQuotesAfter(scan.source, scan.current)))]_vars

\* C10, amended: a string literal extends to the next quote, whatever stands
\* before it; when there is one, the step appends the STRING token of the text up
\* to it: the quoted text with both quotes as lexeme, the text strictly between
\* them as literal value.
C10_StringToNextQuote ==
    [][(StepAt /\ NextChar = 34 /\ QuotesAfter(scan.source, scan.current) # {}) =>
         StringTokenTo(Least(QuotesAfter(scan.source, scan.current)))]_vars

\* A string whose text ends in a backslash has been scanned: its closing quote
\* is the one behind the backslash.
C10_Witness ==
    /\ Len(scan.tokens) > 0
    /\ LastToken.type = TOK_STRING
    /\ LastToken.lexeme = <<34, 97, 92, 34>>
    /\ LastToken.literal.value = <<97, 92>>

\* ---- C11 ----

CountNewlines(s) == Cardinality({i \in 1..Len(s) : s[i] = 10})

\* "[line <line>] Error: Unterminated string." and a newline
UnterminatedLine(line) ==
    <<91, 108, 105, 110, 101, 32>> \o Itoa(line) \o <<93, 32, 69, 114, 114, 111, 114, 58, 32>>
    \o <<85, 110, 116, 101, 114, 109, 105, 110, 97, 116, 101, 100, 32, 115, 116, 114,
         105, 110, 103, 46>> \o <<10>>

IsUnterminated(wr) ==
    \E k \in 1..(Len(wr) - 19) :
        SubSeq(wr, k, k + 19) = <<85, 110, 116, 101, 114, 109, 105, 110, 97, 116, 101, 100,
                                  32, 115, 116, 114, 105, 110, 103, 46>>

ReportedUnterminated == \E i \in 1..Len(stderr) : IsUnterminated(stderr[i])

\* C11: a scan step on a quote that no later quote closes appends no token,
\* consumes the rest of the input, counts the newlines of the consumed text in
\* line and then writes exactly one "Unterminated string." diagnostic with that
\* line; the step after it is the return with the EOF token, and main then
\* exits with code 65.
C11_UnterminatedString ==
    /\ [][(StepAt /\ NextChar = 34 /\ QuotesAfter(scan.source, scan.current) = {}) =>
            LET line == scan.line + CountNewlines(Slice(scan.source, scan.current + 1,
                                                        Len(scan.source)))
            IN  /\ pc' = "ScanTokens"
                /\ scan'.tokens = scan.tokens
                /\ scan'.current = Len(scan.source)
                /\ scan'.line = line
                /\ stderr' = Append(stderr, UnterminatedLine(line))
                /\ hadError']_vars
    /\ [][(entry = "main" /\ pc = "ScanTokens" /\ ReportedUnterminated) =>
            /\ pc' = "RunPrint"
            /\ Len(scan'.tokens) = Len(scan.tokens) + 1
            /\ scan'.tokens[Len(scan'.tokens)].type = EOF]_vars
    /\ []((entry = "main" /\ pc = "exited" /\ ReportedUnterminated) => exitCode = 65)

\* main has exited with code 65 after a string left open over two lines was
\* reported on line 2.
C11_Witness ==
    /\ entry = "main"
    /\ pc = "exited"
    /\ exitCode = 65
    /\ stderr[Len(stderr)] = UnterminatedLine(2)
    /\ \A i \in 1..Len(scan.tokens) : scan.tokens[i].type # TOK_STRING

\* ---- C12 ----

\* The index of the first newline of s at or after index i, Len(s) without one
RECURSIVE LineEnd(_, _)
LineEnd(s, i) ==
    IF i >= Len(s) \/ s[i + 1] = 10 THEN i ELSE LineEnd(s, i + 1)

SlashSlashAt(s, i) == i + 1 < Len(s) /\ s[i + 1] = 47 /\ s[i + 2] = 47

\* C12: a scan step on "//" consumes up to, not including, the next newline
\* (or to the end of input) and changes nothing but start and current: no
\* token, no diagnostic, no line change; the newline is then a step of its own
\* that adds 1 to line, so the tokens after a comment line are on a later
\* line ("//" newline "1" gives NUMBER 1 on line 2, then EOF); a step on a '/'
\* not followed by '/' appends SLASH.
C12_CommentSkipped ==
    /\ [][(StepAt /\ SlashSlashAt(scan.source, scan.current)) =>
            /\ pc' = "ScanTokens"
            /\ scan' = [scan EXCEPT !.start = scan.current,
                                    !.current = LineEnd(scan.source, scan.current)]
            /\ UNCHANGED <<stderr, hadError>>]_vars
    /\ [][(StepAt /\ NextChar = 10) =>
            /\ pc' = "ScanTokens"
            /\ scan' = [scan EXCEPT !.start = scan.current,
                                    !.current = scan.current + 1,
                                    !.line = scan.line + 1]
            /\ UNCHANGED <<stderr, hadError>>]_vars
    /\ [][(StepAt /\ NextChar = 47 /\ ~SlashSlashAt(scan.source, scan.current)) =>
            /\ pc' = "ScanTokens"
            /\ scan' = [scan EXCEPT !.start = scan.current,
                                    !.current = scan.current + 1,
                                    !.tokens = Append(scan.tokens,
                                        [type |-> SLASH, lexeme |-> <<47>>,
                                         literal |-> LoxEmptyLiteral, line |-> scan.line])]
            /\ UNCHANGED <<stderr, hadError>>]_vars
    /\ []((pc = "RunPrint" /\ SlashSlashAt(scan.source, 0)) =>
            /\ \A i \in 1..Len(scan.tokens) : scan.tokens[i].line >= 2 \/ scan.tokens[i].type = EOF
            /\ scan.source = <<47, 47, 10, 49>> =>
                 scan.tokens = <<[type |-> NUMBER, lexeme |-> <<49>>,
                                  literal |-> LoxNumber(ParseFloat(<<49>>)), line |-> 2],
                                 [type |-> EOF, lexeme |-> <<>>,
                                  literal |-> LoxEmptyLiteral, line |-> 2]>>)

\* The scan of "//" newline "1" has returned NUMBER on line 2 and EOF.
C12_Witness ==
    /\ pc = "RunPrint"
    /\ scan.source = <<47, 47, 10, 49>>
    /\ Len(scan.tokens) = 2
    /\ scan.tokens[1].type = NUMBER
    /\ scan.tokens[1].line = 2
    /\ ~hadError

\* ---- C13 ----

PunctuationKind(c) ==
    CASE c = 40 -> LEFT_PAREN [] c = 41 -> RIGHT_PAREN [] c = 123 -> LEFT_BRACE
      [] c = 125 -> RIGHT_BRACE [] c = 44 -> COMMA [] c = 46 -> DOT [] c = 45 -> MINUS
      [] c = 43 -> PLUS [] c = 59 -> SEMICOLON [] c = 47 -> SLASH [] c = 42 -> STAR

Punctuation == {40, 41, 123, 125, 44, 46, 45, 43, 59, 47, 42}

LiteralKindOf(type) ==
    IF type = TOK_STRING THEN "LoxString"
    ELSE IF type = NUMBER THEN "LoxNumber"
    ELSE "LoxEmptyLiteral"

\* C13: every token of the scanner carries one literal whose variant follows
\* from its kind (String iff STRING, Number iff NUMBER, Empty otherwise, with
\* no payload), and a source of one punctuation character scans to one token
\* of the matching kind with the Empty literal, then EOF.
C13_LiteralVariantByKind ==
    /\ \A i \in 1..Len(scan.tokens) :
         LET tok == scan.tokens[i]
         IN  /\ DOMAIN tok = {"type", "lexeme", "literal", "line"}
             /\ tok.literal.kind = LiteralKindOf(tok.type)
             /\ tok.literal.kind = "LoxEmptyLiteral" => tok.literal = LoxEmptyLiteral
    /\ (pc = "RunPrint" /\ Len(scan.source) = 1 /\ scan.source[1] \in Punctuation) =>
         scan.tokens = <<[type |-> PunctuationKind(scan.source[1]), lexeme |-> scan.source,
                          literal |-> LoxEmptyLiteral, line |-> 1],
                         [type |-> EOF, lexeme |-> <<>>,
                          literal |-> LoxEmptyLiteral, line |-> 1]>>

\* A returned sequence holds a String, a Number and an Empty literal at once.
C13_Witness ==
    /\ pc = "RunPrint"
    /\ \E i, j, k \in 1..Len(scan.tokens) :
         /\ scan.tokens[i].literal.kind = "LoxString"
         /\ scan.tokens[j].literal.kind = "LoxNumber"
         /\ scan.tokens[k].type \in {PunctuationKind(c) : c \in Punctuation}

\* ---- C14 ----

Scanning == pc \in {"ScanTokens", "RunPrint"}

\* C14: line starts at 1, never decreases during a scan, and at every
\* boundary between two scanToken steps and at the end of the scan it is
\* 1 + the number of newlines in source[0..current), wherever those newlines
\* stand (between tokens, after a comment, inside a closed or open string).
C14_LineCountsNewlines ==
    /\ [][(pc # "ScanTokens" /\ pc' = "ScanTokens") =>
            (scan'.line = 1 /\ scan'.current = 0)]_vars
    /\ [](Scanning => scan.line = 1 + CountNewlines(Slice(scan.source, 0, scan.current)))
    /\ [][(pc = "ScanTokens" /\ pc' \in {"ScanTokens", "RunPrint"}) =>
            /\ scan'.line >= scan.line
            /\ scan'.line - scan.line =
                 CountNewlines(Slice(scan.source, scan.current, scan'.current))]_vars

\* A scan has ended on line 3 after a newline between tokens and a newline
\* inside a string.
C14_Witness ==
    /\ pc = "RunPrint"
    /\ scan.source = <<10, 34, 10, 34>>
    /\ scan.line = 3
    /\ Len(scan.tokens) = 2

\* ---- C15 ----

\* C15: in every state 0 <= start <= current <= len(source); no step of a
\* scan decreases start or current; a scanToken step leaves start at the
\* value current had when the step began, and the return of ScanTokens
\* assigns neither.
C15_CursorBounds ==
    /\ [](/\ 0 <= scan.start
          /\ scan.start <= scan.current
          /\ scan.current <= Len(scan.source))
    /\ [][pc = "ScanTokens" =>
            /\ scan'.source = scan.source
            /\ scan'.start >= scan.start
            /\ scan'.current >= scan.current]_vars
    /\ [][StepAt => scan'.start = scan.current]_vars
    /\ [][(pc = "ScanTokens" /\ ~StepAt) =>
            (scan'.start = scan.start /\ scan'.current = scan.current)]_vars

\* A scan is between two steps with 0 < start < current < len(source).
C15_Witness ==
    /\ pc = "ScanTokens"
    /\ 0 < scan.start
    /\ scan.start + 1 < scan.current
    /\ scan.current < Len(scan.source)

\* ---- C16 ----

\* C16: every scan terminates with the EOF token appended: each scanToken
\* step moves current forward by at least 1, never past len(source), and
\* hands control back to the ScanTokens loop, and the loop's exit appends EOF
\* and returns; so at most len(source) steps precede the return.
C16_ScanTerminates ==
    /\ [][StepAt =>
            /\ scan'.current > scan.current
            /\ scan'.current <= Len(scan.source)
            /\ pc' = "ScanTokens"]_vars
    /\ [][(pc = "ScanTokens" /\ ~StepAt) =>
            /\ pc' = "RunPrint"
            /\ scan'.tokens = Append(scan.tokens, EOFToken(scan))]_vars

\* ---- C17 ----

IsPrefix(s, t) == Len(s) <= Len(t) /\ SubSeq(t, 1, Len(s)) = s

\* C17: during a scan the token sequence only grows at its end: a scanToken
\* step leaves it unchanged or appends exactly one token, the tokens appended
\* earlier stay as they are (the returning step adds EOF the same way), a step
\* that writes a diagnostic appends no token, and a step on a space, carriage
\* return or tab changes nothing but start and current.
C17_TokensAppendOnly ==
    /\ [][pc = "ScanTokens" =>
            /\ IsPrefix(scan.tokens, scan'.tokens)
            /\ Len(scan'.tokens) <= Len(scan.tokens) + 1]_vars
    /\ [][(StepAt /\ stderr' # stderr) =>
            (scan'.tokens = scan.tokens /\ Len(stderr') = Len(stderr) + 1)]_vars
    /\ [][(StepAt /\ NextChar \in {32, 13, 9}) =>
            /\ scan' = [scan EXCEPT !.start = scan.current, !.current = scan.current + 1]
            /\ pc' = "ScanTokens"
            /\ UNCHANGED <<hadError, stderr, stdout, exitCode>>]_vars

\* A scan holding two tokens has just consumed a space.
C17_Witness ==
    /\ pc = "ScanTokens"
    /\ Len(scan.tokens) = 2
    /\ scan.current = scan.start + 1
    /\ scan.source[scan.current] = 32

\* ---- C18 ----

\* The end of the text at index pos of s that belongs to no token: spaces,
\* carriage returns, tabs, newlines, comments up to their newline, characters
\* reported as unexpected, and a string reported as unterminated
RECURSIVE GapEnd(_, _)
GapEnd(s, pos) ==
    IF pos >= Len(s) THEN pos
    ELSE LET c == s[pos + 1]
         IN  IF c \in {32, 13, 9, 10} THEN GapEnd(s, pos + 1)
             ELSE IF SlashSlashAt(s, pos) THEN GapEnd(s, LineEnd(s, pos))
             ELSE IF c = 34 /\ QuotesAfter(s, pos) = {} THEN Len(s)
             ELSE IF ~Handled(c) THEN GapEnd(s, pos + 1)
             ELSE pos

\* The index after the last of the tokens toks[i..] when each lexeme is a
\* non-empty substring of s that begins where the gap after the token before
\* it ends, starting from index pos; Len(s) + 1 when one of them is not
RECURSIVE LexemesEnd(_, _, _, _)
LexemesEnd(toks, i, pos, s) ==
    IF i > Len(toks) THEN pos
    ELSE LET from == GapEnd(s, pos)
             to   == from + Len(toks[i].lexeme)
         IN  IF /\ Len(toks[i].lexeme) > 0
                /\ to <= Len(s)
                /\ Slice(s, from, to) = toks[i].lexeme
             THEN LexemesEnd(toks, i + 1, to, s)
             ELSE Len(s) + 1

NonEOF(toks) == SelectSeq(toks, LAMBDA tok : tok.type # EOF)

\* C18: the lexemes of the non-EOF tokens are non-empty substrings of the
\* source that follow one another in source order without overlap, and the
\* text before, between and after them is only whitespace, newlines, comments
\* and text reported as a lexical error: during a scan the tokens account in
\* this way for source[0..current), in the returned sequence for all of it.
C18_LexemesInSourceOrder ==
    Scanning =>
        LET end == LexemesEnd(NonEOF(scan.tokens), 1, 0, scan.source)
        IN  /\ end <= Len(scan.source)
            /\ end <= scan.current
            /\ GapEnd(scan.source, end) = GapEnd(scan.source, scan.current)
            /\ pc = "RunPrint" => GapEnd(scan.source, end) = Len(scan.source)

\* A returned sequence has two lexemes with a reported character between them.
C18_Witness ==
    /\ pc = "RunPrint"
    /\ scan.source = <<49, 64, 97>>
    /\ Len(scan.tokens) = 3
    /\ scan.tokens[2].lexeme = <<97>>
    /\ hadError

\* ---- C19 ----

\* The 1-based line of the character at index i of s
LineOf(s, i) == 1 + CountNewlines(Slice(s, 0, i))

\* C19: a token's line is the line on which it was recognized: a step that
\* appends a token other than a STRING gives it the line of the token's first
\* character, a step that appends a STRING gives it the line of the closing
\* quote (the token's last character), which is past the line of the opening
\* quote by the newlines inside the string; and the lines of the tokens never
\* decrease along the sequence, EOF included.
C19_TokenLine ==
    /\ [][(StepAt /\ Len(scan'.tokens) = Len(scan.tokens) + 1) =>
            LET tok == scan'.tokens[Len(scan'.tokens)]
            IN  IF tok.type = TOK_STRING
                THEN /\ tok.line = LineOf(scan.source, scan'.current - 1)
                     /\ tok.line = LineOf(scan.source, scan.current)
                                   + CountNewlines(tok.lexeme)
                ELSE tok.line = LineOf(scan.source, scan.current)]_vars
    /\ [](\A i, j \in 1..Len(scan.tokens) :
            i <= j => scan.tokens[i].line <= scan.tokens[j].line)

\* A returned sequence has a STRING opened on line 1 and closed on line 2,
\* with line 2, followed by a token on line 2.
C19_Witness ==
    /\ pc = "RunPrint"
    /\ Len(scan.tokens) = 3
    /\ scan.tokens[1].type = TOK_STRING
    /\ scan.tokens[1].lexeme = <<34, 10, 34>>
    /\ scan.tokens[1].line = 2
    /\ scan.tokens[2].type # TOK_STRING
    /\ scan.tokens[2].line = 2

\* ---- C20 ----

IsNumberLeaf(e) == e.node = "Literal" /\ e.Value.kind = "LoxNumber"

\* Every Literal leaf of e holds a number and every operator of e is + - * /
RECURSIVE WellFormed(_)
WellFormed(e) ==
    IF e.node = "Literal" THEN IsNumberLeaf(e)
    ELSE e.Op \in {"+", "-", "*", "/"} /\ WellFormed(e.Left) /\ WellFormed(e.Right)

\* The arithmetic result of op on two float64 values
Arith(op, x, y) ==
    CASE op = "+" -> FloatAdd(x, y)
      [] op = "-" -> FloatSub(x, y)
      [] op = "*" -> FloatMul(x, y)
      [] op = "/" -> FloatDiv(x, y)

Evaluated == pc \in {"evalReturned", "evalPanicked"}

\* C20: the evaluator panics only on a non-numeric literal or an unrecognized
\* operator: a Literal leaf evaluates to the value it holds, and a Binary node
\* over two Literal leaves holding numbers with an operator among + - * /
\* evaluates, without a panic, to the arithmetic result of the two numbers.
C20_EvaluatorStub ==
    Evaluated =>
        /\ expr.node = "Literal" =>
             (result.tag = "LoxLiteral" /\ result.value = expr.Value)
        /\ result.tag = "panic" => ~WellFormed(expr)
        /\ (/\ expr.node = "Binary"
            /\ IsNumberLeaf(expr.Left)
            /\ IsNumberLeaf(expr.Right)
            /\ expr.Op \in {"+", "-", "*", "/"}) =>
             /\ result.tag = "float64"
             /\ result.value = Arith(expr.Op, NumberValue(expr.Left.Value),
                                     NumberValue(expr.Right.Value))

====
